---- MODULE Spec2Model ----
(***************************************************************************)
(* py-regex: a Rust wrapper (src/src/lib.rs) around the Python `regex`     *)
(* library, reached through pyo3.  Every wrapper method runs inside        *)
(* Python::with_gil, forwards to one method of the compiled pattern or of  *)
(* the match object, and converts the Python value to a Rust value with    *)
(* extract::<T>().                                                         *)
(*                                                                         *)
(* Rust strings are UTF-8 byte sequences, Python strings are code point    *)
(* sequences; the model keeps the two apart (Encode / Decode).             *)
(* The library methods the wrapper calls (compile, search, finditer,       *)
(* findall, sub, split, group, groups, groupdict, start, end) are modelled *)
(* at their call sites by the behaviour of the library on a small pattern  *)
(* language: a concatenation of quantified character classes, each         *)
(* optionally a (named) capturing group.                                   *)
(***************************************************************************)
EXTENDS Integers, Sequences, FiniteSets, TLC

\* ------------------------------------------------------------------ bounds
MaxLen == 3
NThreads == 2

\* --------------------------------------------------------- Rust-side values
\* PyResult<T>
Ok(v) == [ok |-> TRUE, val |-> v]
Err(e) == [ok |-> FALSE, val |-> e]
\* Option<T> (and a Python value that may be None)
None == <<>>
Some(x) == <<x>>

\* ---------------------------------------------------- text and conversions
\* "E" stands for a code point that UTF-8 encodes in two bytes (such as U+00E9).
Chars == {"a", "1", "-", "E"}
Width(c) == IF c = "E" THEN 2 ELSE 1

RECURSIVE Encode(_)
\* Python str -> Rust String (extract::<String>): UTF-8 bytes, a byte being
\* <<code point, index of the byte within it>>.
Encode(s) ==
  IF s = <<>> THEN <<>>
  ELSE [j \in 1..Width(Head(s)) |-> <<Head(s), j>>] \o Encode(Tail(s))

\* Rust &str -> Python str (argument conversion of call_method): the lead
\* byte of every code point.
Decode(b) ==
  LET lead == SelectSeq(b, LAMBDA x : x[2] = 1)
  IN [k \in 1..Len(lead) |-> lead[k][1]]

RECURSIVE StrsUpTo(_)
StrsUpTo(n) ==
  IF n = 0 THEN {<<>>}
  ELSE LET S == StrsUpTo(n - 1)
       IN S \cup {Append(s, c) : s \in {x \in S : Len(x) = n - 1}, c \in Chars}

Texts == {Encode(s) : s \in StrsUpTo(MaxLen)}

\* ----------------------------------------------------------- the patterns
ClsA == {"a"}
ClsD == {"1"}
ClsH == {"-"}
ClsW == {"a", "1", "E"}

\* one element: class cls repeated q in {"1","?","*","+","*?"};
\* cap = "none", "in" for (xq), "out" for (x)q; name = "" when unnamed
El(cls, q, cap, name) == [cls |-> cls, q |-> q, cap |-> cap, name |-> name]

Patterns ==
  { [src |-> "a",                 valid |-> TRUE,  ast |-> <<El(ClsA, "1", "none", "")>>],
    [src |-> "a*",                valid |-> TRUE,  ast |-> <<El(ClsA, "*", "none", "")>>],
    [src |-> "a*?",               valid |-> TRUE,  ast |-> <<El(ClsA, "*?", "none", "")>>],
    [src |-> "\\w+",              valid |-> TRUE,  ast |-> <<El(ClsW, "+", "none", "")>>],
    [src |-> "(?P<id>\\d+)",      valid |-> TRUE,  ast |-> <<El(ClsD, "+", "in", "id")>>],
    [src |-> "(?P<word>\\w+)-(\\d+)", valid |-> TRUE,
       ast |-> <<El(ClsW, "+", "in", "word"), El(ClsH, "1", "none", ""), El(ClsD, "+", "in", "")>>],
    [src |-> "(?P<x>a)?-",        valid |-> TRUE,
       ast |-> <<El(ClsA, "?", "out", "x"), El(ClsH, "1", "none", "")>>],
    [src |-> "(a)?(?P<n>1)",      valid |-> TRUE,
       ast |-> <<El(ClsA, "?", "out", ""), El(ClsD, "1", "in", "n")>>],
    [src |-> "(a",                valid |-> FALSE, ast |-> <<>>] }

\* ------------------------------------------------- Python-side values
PyNone == [t |-> "None", v |-> <<>>]
PyStr(s) == [t |-> "str", v |-> s]
PyInt(i) == [t |-> "int", v |-> i]
PyList(xs) == [t |-> "list", v |-> xs]
PyTuple(xs) == [t |-> "tuple", v |-> xs]
PyDict(f) == [t |-> "dict", v |-> f]
PyMatch(m) == [t |-> "match", v |-> m]

\* ------------------------------------------- the library: regex.compile
RECURSIVE Number(_, _)
\* group numbers, from 1, in left-to-right order of the opening parenthesis
Number(ast, n) ==
  IF ast = <<>> THEN <<>>
  ELSE LET e == Head(ast)
           g == IF e.cap = "none" THEN 0 ELSE n + 1
       IN <<[cls |-> e.cls, q |-> e.q, cap |-> e.cap, name |-> e.name, grp |-> g]>>
          \o Number(Tail(ast), IF g = 0 THEN n ELSE g)

\* regex.compile(pattern): the compiled pattern object, or an exception
PyCompile(pattern) ==
  IF ~pattern.valid THEN Err("regex.error")
  ELSE LET prog == Number(pattern.ast, 0)
           caps == {k \in 1..Len(prog) : prog[k].grp > 0}
           names == {prog[k].name : k \in caps} \ {""}
       IN Ok([prog |-> prog,
              groups |-> Cardinality(caps),
              groupindex |-> [nm \in names |-> prog[CHOOSE k \in caps : prog[k].name = nm].grp]])

\* ------------------------------------------------ the library: matching
NoSpan == <<-1, -1>>
Fail == [found |-> FALSE, span |-> NoSpan, spans |-> <<>>]

RECURSIVE Run(_, _, _)
\* number of consecutive code points of s from offset pos that are in cls
Run(cls, s, pos) ==
  IF pos < Len(s) /\ s[pos + 1] \in cls THEN 1 + Run(cls, s, pos + 1) ELSE 0

MinCount(q) == IF q \in {"1", "+"} THEN 1 ELSE 0
MaxCount(q, run) == IF q \in {"1", "?"} THEN (IF run > 0 THEN 1 ELSE 0) ELSE run
Lazy(q) == q = "*?"

RECURSIVE MatchFrom(_, _, _, _, _, _, _)
RECURSIVE TryCount(_, _, _, _, _, _, _, _, _)
\* backtracking match of elements k.. of prog at offset pos of s; the match
\* began at offset start; advance = a match of width 0 is not acceptable
MatchFrom(prog, n, k, s, pos, start, advance) ==
  IF k > Len(prog)
  THEN IF advance /\ pos = start THEN Fail
       ELSE [found |-> TRUE, span |-> <<start, pos>>, spans |-> [g \in 1..n |-> NoSpan]]
  ELSE LET e == prog[k]
           run == Run(e.cls, s, pos)
           lo == MinCount(e.q)
           hi == MaxCount(e.q, run)
       IN IF hi < lo THEN Fail
          ELSE TryCount(prog, n, k, s, pos, start, advance,
                        IF Lazy(e.q) THEN lo ELSE hi, IF Lazy(e.q) THEN hi ELSE lo)

\* try c repetitions of element k, then the next count towards last
TryCount(prog, n, k, s, pos, start, advance, c, last) ==
  LET e == prog[k]
      r == MatchFrom(prog, n, k + 1, s, pos + c, start, advance)
      sp == IF e.cap = "in" THEN <<pos, pos + c>>
            ELSE IF e.cap = "out" /\ c > 0 THEN <<pos + c - 1, pos + c>>
            ELSE NoSpan
  IN IF r.found
     THEN IF e.grp = 0 THEN r
          ELSE [found |-> TRUE, span |-> r.span, spans |-> [r.spans EXCEPT ![e.grp] = sp]]
     ELSE IF c = last THEN Fail
          ELSE TryCount(prog, n, k, s, pos, start, advance,
                        IF c < last THEN c + 1 ELSE c - 1, last)

RECURSIVE Scan(_, _, _, _)
\* the leftmost match starting at or after offset from; advance applies
\* to the attempt at offset from only
Scan(re, s, from, advance) ==
  IF from > Len(s) THEN Fail
  ELSE LET r == MatchFrom(re.prog, re.groups, 1, s, from, from, advance)
       IN IF r.found THEN r ELSE Scan(re, s, from + 1, FALSE)

\* a match object
MatchObj(re, s, r) == [string |-> s, span |-> r.span, spans |-> r.spans, groupindex |-> re.groupindex]

\* Pattern.search(text): a match object or None
PySearch(re, s) ==
  LET r == Scan(re, s, 0, FALSE)
  IN IF r.found THEN PyMatch(MatchObj(re, s, r)) ELSE PyNone

\* the scanner behind finditer, findall, sub and split: its state is the
\* offset to continue from and whether the last match had width 0
ScanInit == [pos |-> 0, advance |-> FALSE]
ScanNext(re, s, it) == Scan(re, s, it.pos, it.advance)
ScanStep(r) == [pos |-> r.span[2], advance |-> r.span[1] = r.span[2]]

RECURSIVE ScanAll(_, _, _)
\* every match the scanner yields, in order
ScanAll(re, s, it) ==
  LET r == ScanNext(re, s, it)
  IN IF ~r.found THEN <<>>
     ELSE <<MatchObj(re, s, r)>> \o ScanAll(re, s, ScanStep(r))

\* Pattern.finditer(text): a fresh iterator object over the scanner
PyFinditer(re, s) == [t |-> "iter", v |-> [re |-> re, string |-> s, it |-> ScanInit]]
\* next(iterator): the item (found) or exhaustion, and the iterator after it
IterNext(i) ==
  LET r == ScanNext(i.v.re, i.v.string, i.v.it)
  IN [found |-> r.found,
      item |-> IF r.found THEN PyMatch(MatchObj(i.v.re, i.v.string, r)) ELSE PyNone,
      iter |-> IF r.found THEN [i EXCEPT !.v.it = ScanStep(r)] ELSE i]

Slice(s, span) == SubSeq(s, span[1] + 1, span[2])

\* the text of group i of match m, None when it did not participate
GroupText(m, i) ==
  LET sp == IF i = 0 THEN m.span ELSE m.spans[i]
  IN IF sp = NoSpan THEN PyNone ELSE PyStr(Slice(m.string, sp))

\* Match.group(i), Match.start(i), Match.end(i): IndexError past the last group
PyGroup(m, i) == IF i > Len(m.spans) THEN Err("IndexError") ELSE Ok(GroupText(m, i))
PyStart(m, i) ==
  IF i > Len(m.spans) THEN Err("IndexError")
  ELSE Ok(PyInt(IF i = 0 THEN m.span[1] ELSE m.spans[i][1]))
PyEnd(m, i) ==
  IF i > Len(m.spans) THEN Err("IndexError")
  ELSE Ok(PyInt(IF i = 0 THEN m.span[2] ELSE m.spans[i][2]))

\* Match.groups(): the tuple of groups 1..n
PyGroups(m) == PyTuple([i \in 1..Len(m.spans) |-> GroupText(m, i)])

\* Match.groupdict(): every name of the pattern mapped to its group
PyGroupdict(m) == PyDict([nm \in DOMAIN m.groupindex |-> GroupText(m, m.groupindex[nm])])

\* Pattern.findall(text): per match the whole match when the pattern has no
\* group, group 1 when it has one, the tuple of its groups when it has
\* more; a group that did not participate gives the empty string
FindallItem(m) ==
  LET n == Len(m.spans)
      txt(i) == IF GroupText(m, i).t = "None" THEN PyStr(<<>>) ELSE GroupText(m, i)
  IN IF n = 0 THEN txt(0)
     ELSE IF n = 1 THEN txt(1)
     ELSE PyTuple([i \in 1..n |-> txt(i)])

PyFindall(re, s) ==
  LET ms == ScanAll(re, s, ScanInit)
  IN PyList([k \in 1..Len(ms) |-> FindallItem(ms[k])])

RECURSIVE SplitFrom(_, _, _)
\* Pattern.split(text): the pieces between the matches, each followed by
\* the groups of the match that ends it
SplitFrom(s, ms, last) ==
  IF ms = <<>> THEN <<PyStr(SubSeq(s, last + 1, Len(s)))>>
  ELSE LET m == Head(ms)
       IN <<PyStr(SubSeq(s, last + 1, m.span[1]))>>
          \o [i \in 1..Len(m.spans) |-> GroupText(m, i)]
          \o SplitFrom(s, Tail(ms), m.span[2])

PySplit(re, s) == PyList(SplitFrom(s, ScanAll(re, s, ScanInit), 0))

RECURSIVE SubFrom(_, _, _, _)
\* Pattern.sub(repl, text) for a replacement without escapes
SubFrom(s, ms, last, repl) ==
  IF ms = <<>> THEN SubSeq(s, last + 1, Len(s))
  ELSE LET m == Head(ms)
       IN SubSeq(s, last + 1, m.span[1]) \o repl \o SubFrom(s, Tail(ms), m.span[2], repl)

PySub(re, repl, s) == PyStr(SubFrom(s, ScanAll(re, s, ScanInit), 0, repl))

\* ------------------------------------------------- pyo3: extract::<T>()
IsErrIn(rs) == \E k \in 1..Len(rs) : ~rs[k].ok
Vals(rs) == [k \in 1..Len(rs) |-> rs[k].val]

ExtractString(x) == IF x.t = "str" THEN Ok(Encode(x.v)) ELSE Err("TypeError")
ExtractOptString(x) ==
  IF x.t = "None" THEN Ok(None)
  ELSE IF x.t = "str" THEN Ok(Some(Encode(x.v)))
  ELSE Err("TypeError")
ExtractIsize(x) == IF x.t = "int" THEN Ok(x.v) ELSE Err("TypeError")
\* Vec<T>: any sequence but a str, element by element
ExtractVecString(x) ==
  IF x.t \notin {"list", "tuple"} THEN Err("TypeError")
  ELSE LET rs == [k \in 1..Len(x.v) |-> ExtractString(x.v[k])]
       IN IF IsErrIn(rs) THEN Err("TypeError") ELSE Ok(Vals(rs))
ExtractVecOptString(x) ==
  IF x.t \notin {"list", "tuple"} THEN Err("TypeError")
  ELSE LET rs == [k \in 1..Len(x.v) |-> ExtractOptString(x.v[k])]
       IN IF IsErrIn(rs) THEN Err("TypeError") ELSE Ok(Vals(rs))
\* HashMap<String, Option<String>>; the keys stay the group names
ExtractMapOptString(x) ==
  IF x.t # "dict" THEN Err("TypeError")
  ELSE IF \E nm \in DOMAIN x.v : ~ExtractOptString(x.v[nm]).ok THEN Err("TypeError")
  ELSE Ok([nm \in DOMAIN x.v |-> ExtractOptString(x.v[nm]).val])

\* --------------------------------------------------- the wrapper: PyRegex
\* kwargs(): the dictionary {"concurrent": True}
kwargs == Some([concurrent |-> TRUE])

\* PyRegex::new
new(pattern) ==
  LET compiled == PyCompile(pattern)
  IN IF ~compiled.ok THEN Err(compiled.val) ELSE Ok([compiled |-> compiled.val])

\* search_match that treats the absence of a match as a failure
search_match_strict(self, text) ==
  LET result == PySearch(self.compiled, Decode(text))
  IN IF result.t = "None" THEN Err("NoMatch") ELSE Ok(Some([inner |-> result]))

\* PyRegex::search_match
search_match(self, text) ==
  LET result == PySearch(self.compiled, Decode(text))
  IN Ok(IF result.t = "None" THEN None ELSE Some([inner |-> result]))

RECURSIVE CollectTwice(_, _)
\* a loop that pushes every item twice
CollectTwice(iter, matches) ==
  LET n == IterNext(iter)
  IN IF ~n.found THEN matches
     ELSE CollectTwice(n.iter, Append(Append(matches, [inner |-> n.item]), [inner |-> n.item]))

RECURSIVE Collect(_, _)
\* the for loop of find_iter: push every item the iterator yields
Collect(iter, matches) ==
  LET n == IterNext(iter)
  IN IF ~n.found THEN matches
     ELSE Collect(n.iter, Append(matches, [inner |-> n.item]))

\* PyRegex::find_iter
find_iter(self, text) ==
  LET binding == PyFinditer(self.compiled, Decode(text))
  IN IF binding.t # "iter" THEN Err("DowncastError")
     ELSE Ok(Collect(binding, <<>>))

\* is_match without the negation of is_none
is_match_plain(self, text) == Ok(PySearch(self.compiled, Decode(text)).t = "None")

\* PyRegex::is_match
is_match(self, text) == Ok(~(PySearch(self.compiled, Decode(text)).t = "None"))

\* PyRegex::find_all
find_all(self, text) == ExtractVecString(PyFindall(self.compiled, Decode(text)))

\* PyRegex::replace
replace(self, text, replacement) ==
  ExtractString(PySub(self.compiled, Decode(replacement), Decode(text)))

\* split that calls findall
split_findall(self, text) == ExtractVecString(PyFindall(self.compiled, Decode(text)))

\* PyRegex::split
split(self, text) == ExtractVecString(PySplit(self.compiled, Decode(text)))

\* ---------------------------------------------- the wrapper: PyRegexMatch
\* the ? after call_method1: an exception leaves the method as Err
\* group that turns an exception into None
group_default(self, i) ==
  LET r == PyGroup(self.inner.v, i) IN IF ~r.ok THEN Ok(None) ELSE ExtractOptString(r.val)

\* PyRegexMatch::group
group(self, i) ==
  LET r == PyGroup(self.inner.v, i) IN IF ~r.ok THEN r ELSE ExtractOptString(r.val)
\* PyRegexMatch::groups
groups(self) == ExtractVecOptString(PyGroups(self.inner.v))
\* groupdict that keeps only the groups that participated
groupdict_some(self) ==
  LET d == PyGroupdict(self.inner.v).v
  IN Ok([nm \in {x \in DOMAIN d : d[x].t = "str"} |-> Some(Encode(d[nm].v))])

\* PyRegexMatch::groupdict
groupdict(self) == ExtractMapOptString(PyGroupdict(self.inner.v))
\* PyRegexMatch::start
start(self, i) ==
  LET r == PyStart(self.inner.v, i) IN IF ~r.ok THEN r ELSE ExtractIsize(r.val)
\* PyRegexMatch::end
end(self, i) ==
  LET r == PyEnd(self.inner.v, i) IN IF ~r.ok THEN r ELSE ExtractIsize(r.val)

\* ---------------------------------------------- a caller of the library
MaxGroup == 3
Repls == {Encode(<<>>), Encode(<<"-">>), Encode(<<"E">>)}

VARIABLES
  pattern,   \* the pattern source given to new
  text,      \* the text (a Rust &str) the caller matches against
  re,        \* <<>> before new, <<PyResult<PyRegex>>> after it
  held,      \* the PyRegexMatch values the caller holds
  last,      \* the last call: its name, arguments and result
  th,        \* per worker thread: where it is in its current call
  slots      \* the iterator of each find_iter call in progress

vars == <<pattern, text, re, held, last, th, slots>>

Threads == 1..NThreads
Idle == [pc |-> "idle", holds |-> FALSE, op |-> "none", i |-> 0, matches |-> <<>>, res |-> Ok(0)]
NoIter == [t |-> "None", v |-> <<>>]

Call(name, k, i, res) == [op |-> name, k |-> k, i |-> i, res |-> res]

Init ==
  /\ pattern \in Patterns
  /\ text \in Texts
  /\ re = <<>>
  /\ held = <<>>
  /\ last = Call("none", 0, 0, Ok(0))
  /\ th = [t \in Threads |-> Idle]
  /\ slots = [t \in Threads |-> NoIter]

Compiled == re # <<>> /\ re[1].ok
Self == re[1].val

New ==
  /\ re = <<>>
  /\ re' = <<new(pattern)>>
  /\ last' = Call("new", 0, 0, Ok(0))
  /\ UNCHANGED <<pattern, text, held, th, slots>>

SearchMatch ==
  /\ Compiled
  /\ LET r == search_match(Self, text)
     IN /\ last' = Call("search_match", 0, 0, r)
        /\ held' = IF r.ok THEN r.val ELSE <<>>
  /\ UNCHANGED <<pattern, text, re, th, slots>>

FindIter ==
  /\ Compiled
  /\ LET r == find_iter(Self, text)
     IN /\ last' = Call("find_iter", 0, 0, r)
        /\ held' = IF r.ok THEN r.val ELSE <<>>
  /\ UNCHANGED <<pattern, text, re, th, slots>>

IsMatch ==
  /\ Compiled
  /\ last' = Call("is_match", 0, 0, is_match(Self, text))
  /\ UNCHANGED <<pattern, text, re, held, th, slots>>

FindAll ==
  /\ Compiled
  /\ last' = Call("find_all", 0, 0, find_all(Self, text))
  /\ UNCHANGED <<pattern, text, re, held, th, slots>>

Replace ==
  /\ Compiled
  /\ \E repl \in Repls : last' = Call("replace", 0, 0, replace(Self, text, repl))
  /\ UNCHANGED <<pattern, text, re, held, th, slots>>

Split ==
  /\ Compiled
  /\ last' = Call("split", 0, 0, split(Self, text))
  /\ UNCHANGED <<pattern, text, re, held, th, slots>>

Group ==
  /\ \E k \in 1..Len(held), i \in 0..MaxGroup : last' = Call("group", k, i, group(held[k], i))
  /\ UNCHANGED <<pattern, text, re, held, th, slots>>

Groups ==
  /\ \E k \in 1..Len(held) : last' = Call("groups", k, 0, groups(held[k]))
  /\ UNCHANGED <<pattern, text, re, held, th, slots>>

Groupdict ==
  /\ \E k \in 1..Len(held) : last' = Call("groupdict", k, 0, groupdict(held[k]))
  /\ UNCHANGED <<pattern, text, re, held, th, slots>>

Start ==
  /\ \E k \in 1..Len(held), i \in 0..MaxGroup : last' = Call("start", k, i, start(held[k], i))
  /\ UNCHANGED <<pattern, text, re, held, th, slots>>

End ==
  /\ \E k \in 1..Len(held), i \in 0..MaxGroup : last' = Call("end", k, i, end(held[k], i))
  /\ UNCHANGED <<pattern, text, re, held, th, slots>>

Next ==
  \/ New \/ SearchMatch \/ FindIter \/ IsMatch \/ FindAll \/ Replace \/ Split
  \/ Group \/ Groups \/ Groupdict \/ Start \/ End

Spec == Init /\ [][Next]_vars

\* ------------------------------------------ worker threads sharing one PyRegex
\* (examples/basic.rs: the pattern is compiled and searched once, then the
\* Arc<PyRegex> is cloned into threads that call into it concurrently)
ConcTexts == {Encode(<<"a", "-", "1">>), Encode(<<"1", "a">>)}
BadPattern == CHOOSE p \in Patterns : ~p.valid
ConcRepl == Encode(<<"-">>)

\* the methods whose library call runs the matcher; with concurrent=True the
\* library releases the global lock while it matches
Matching == {"search_match", "is_match", "find_all", "replace", "split"}
OnMatch == {"group", "groups", "groupdict", "start", "end"}
Ops == {"new", "find_iter"} \cup Matching \cup OnMatch

\* the keyword arguments of the matching calls ask the library to release
\* the global lock while the matcher runs
Releases == kwargs # None /\ kwargs[1].concurrent

\* an acquisition that does not wait
CanAcquireAlways(t) == TRUE

\* Python::with_gil blocks until no thread holds the global lock
CanAcquire(t) == \A u \in Threads : ~th[u].holds

\* one iterator kept with the shared pattern
IterSlotShared(t) == 1

\* `binding` and `iter` are locals of the closure: one iterator per call
IterSlot(t) == t

InitConc ==
  /\ pattern \in {p \in Patterns : p.valid}
  /\ text \in ConcTexts
  /\ re = <<new(pattern)>>
  /\ held = search_match(re[1].val, text).val
  /\ last = Call("search_match", 0, 0, search_match(re[1].val, text))
  /\ th = [t \in Threads |-> Idle]
  /\ slots = [t \in Threads |-> NoIter]

Shared == UNCHANGED <<pattern, text, re, held, last>>

\* with_gil: take the lock and enter the closure of the method called
Acquire(t) ==
  /\ th[t].pc = "idle"
  /\ CanAcquire(t)
  /\ \E op \in Ops, i \in 0..MaxGroup :
       /\ op \in OnMatch => held # <<>>
       /\ op \in {"group", "start", "end"} \/ i = 0 \/ (op = "new" /\ i = 1)
       /\ th' = [th EXCEPT ![t] = [Idle EXCEPT !.pc = "locked", !.holds = TRUE, !.op = op, !.i = i]]
  /\ UNCHANGED slots
  /\ Shared

\* the result of a call that does not run the matcher
Direct(op, i) ==
  CASE op = "new" -> LET r == new(IF i = 1 THEN BadPattern ELSE pattern)
                     IN IF r.ok THEN Ok(0) ELSE r
    [] op = "group" -> group(held[1], i)
    [] op = "groups" -> groups(held[1])
    [] op = "groupdict" -> groupdict(held[1])
    [] op = "start" -> start(held[1], i)
    [] op = "end" -> end(held[1], i)

\* the result of a call that runs the matcher once
Matched(op) ==
  CASE op = "search_match" -> search_match(Self, text)
    [] op = "is_match" -> is_match(Self, text)
    [] op = "find_all" -> find_all(Self, text)
    [] op = "replace" -> replace(Self, text, ConcRepl)
    [] op = "split" -> split(Self, text)

\* call_method inside the closure, made by the thread holding the lock
CallRuntime(t) ==
  /\ th[t].pc = "locked"
  /\ IF th[t].op \in Matching
     THEN /\ th' = [th EXCEPT ![t].pc = "matching", ![t].holds = ~Releases]
          /\ UNCHANGED slots
     ELSE IF th[t].op = "find_iter"
     THEN /\ th' = [th EXCEPT ![t].pc = "loop"]
          /\ slots' = [slots EXCEPT ![IterSlot(t)] = PyFinditer(Self.compiled, Decode(text))]
     ELSE /\ th' = [th EXCEPT ![t].pc = "ret", ![t].res = Direct(th[t].op, th[t].i)]
          /\ UNCHANGED slots
  /\ Shared

\* the matcher is done: the library takes the lock again and the method
\* converts the value
MatchDone(t) ==
  /\ th[t].pc = "matching"
  /\ th[t].holds \/ CanAcquire(t)
  /\ th' = [th EXCEPT ![t].pc = "ret", ![t].holds = TRUE, ![t].res = Matched(th[t].op)]
  /\ UNCHANGED slots
  /\ Shared

\* for item in iter: next(iter) runs the matcher with the lock released
IterCall(t) ==
  /\ th[t].pc = "loop"
  /\ th' = [th EXCEPT ![t].pc = "next", ![t].holds = ~Releases]
  /\ UNCHANGED slots
  /\ Shared

\* next(iter) returns: push the match, or leave the loop with Ok(matches)
IterDone(t) ==
  /\ th[t].pc = "next"
  /\ th[t].holds \/ CanAcquire(t)
  /\ LET n == IterNext(slots[IterSlot(t)])
     IN IF n.found
        THEN /\ th' = [th EXCEPT ![t].pc = "loop", ![t].holds = TRUE,
                                 ![t].matches = Append(@, [inner |-> n.item])]
             /\ slots' = [slots EXCEPT ![IterSlot(t)] = n.iter]
        ELSE /\ th' = [th EXCEPT ![t].pc = "ret", ![t].holds = TRUE, ![t].res = Ok(th[t].matches)]
             /\ slots' = [slots EXCEPT ![IterSlot(t)] = n.iter]
  /\ Shared

\* the closure returns, Ok or Err: with_gil drops the lock and the method
\* hands the result to its caller
Return(t) ==
  /\ th[t].pc = "ret"
  /\ th' = [th EXCEPT ![t] = Idle]
  /\ slots' = slots
  /\ Shared

NextConc ==
  \E t \in Threads :
    \/ Acquire(t) \/ CallRuntime(t) \/ MatchDone(t) \/ IterCall(t) \/ IterDone(t) \/ Return(t)

SpecConc == InitConc /\ [][NextConc]_vars

\* ===================================================================== claims
NGroups == Self.compiled.groups
NoMatch == PySearch(Self.compiled, Decode(text)).t = "None"
\* the matches of find_iter, and per match the results of group(0), start(0), end(0)
Found == find_iter(Self, text).val
G0(m) == group(m, 0).val
S0(m) == start(m, 0).val
E0(m) == end(m, 0).val
\* bytes from..to of a Rust string, offsets counted from 0
Bytes(b, from, to) == SubSeq(b, from + 1, to)

\* C1: is_match returns Ok(true) exactly when search_match returns Ok(Some),
\* Ok(false) exactly when it returns Ok(None), and neither is an error
\* where the other is a value.
C1_IsMatchIffSearch ==
  /\ last.op = "is_match" =>
       LET r == search_match(Self, text)
       IN /\ last.res.ok = r.ok
          /\ last.res.ok => (last.res.val <=> r.val # None)
  /\ last.op = "search_match" =>
       LET b == is_match(Self, text)
       IN /\ last.res.ok = b.ok
          /\ last.res.ok => (b.val <=> last.res.val # None)

C1_Witness == last.op = "is_match" /\ last.res = Ok(TRUE) /\ Len(Found) > 1

\* C2: find_all succeeds and its k-th element is group(0) of the k-th match
\* of find_iter, for patterns with any number of capturing groups.
C2_FindAllIsGroup0 ==
  last.op = "find_all" =>
    /\ last.res.ok
    /\ Len(last.res.val) = Len(Found)
    /\ \A k \in 1..Len(Found) : Some(last.res.val[k]) = G0(Found[k])

\* C3: group(0) of a match is the slice of the text between the byte
\* offsets start(0) and end(0), and 0 <= start(0) <= end(0) <= length.
C3_Group0IsByteSlice ==
  last.op = "group" /\ last.i = 0 =>
    LET m == held[last.k]
    IN /\ last.res.ok
       /\ 0 <= S0(m) /\ S0(m) <= E0(m) /\ E0(m) <= Len(text)
       /\ last.res.val = Some(Bytes(text, S0(m), E0(m)))

\* C4: a find_iter call that ran interleaved with the calls of other threads
\* on the shared pattern returns what it returns when run alone, and the
\* shared pattern stays the one that was compiled.
C4_SameAsAlone ==
  /\ re = <<new(pattern)>>
  /\ \A t \in Threads :
       th[t].pc = "ret" /\ th[t].op = "find_iter" => th[t].res = find_iter(Self, text)

C4_Witness ==
  /\ th[1].pc = "ret" /\ th[1].op = "find_iter" /\ Len(th[1].res.val) > 1
  /\ th[2].pc = "next" /\ Len(th[2].matches) = 1

\* C5: a thread inside the closure of a method (about to call the runtime,
\* between two calls, or about to return) holds the global lock, a thread
\* outside every method does not, and at most one thread holds it.
C5_LockDiscipline ==
  /\ \A t \in Threads : th[t].pc \in {"locked", "loop", "ret"} => th[t].holds
  /\ \A t \in Threads : th[t].pc = "idle" => ~th[t].holds
  /\ \A t, u \in Threads : th[t].holds /\ th[u].holds => t = u

C5_Witness ==
  /\ th[1].pc = "ret" /\ ~th[1].res.ok /\ th[1].holds
  /\ th[2].pc = "matching"

\* C6: when the pattern has no match in the text no operation reports an
\* error: search_match gives Ok(None), is_match Ok(false), find_all and
\* find_iter Ok(empty).
C6_NoMatchIsNoError ==
  Compiled /\ NoMatch =>
    /\ last.op = "search_match" => last.res = Ok(None)
    /\ last.op = "is_match" => last.res = Ok(FALSE)
    /\ last.op = "find_all" => last.res = Ok(<<>>)
    /\ last.op = "find_iter" => last.res = Ok(<<>>)
    /\ last.op \in {"replace", "split"} => last.res.ok

C6_Witness ==
  /\ Compiled /\ NoMatch /\ NGroups = 2 /\ text # <<>>
  /\ last.op = "search_match" /\ last.res = Ok(None)

\* C7: with n the number of groups of the pattern, group(i), start(i) and
\* end(i) are errors for i > n; group(i) for i <= n is Ok(Some(text of the
\* group)) when the group participated and Ok(None) when it did not;
\* groups() has n elements, the k-th being group(k).
C7_GroupResults ==
  /\ last.op \in {"group", "start", "end"} /\ last.i > NGroups => ~last.res.ok
  /\ last.op = "group" /\ last.i <= NGroups =>
       LET m == held[last.k].inner.v
           sp == IF last.i = 0 THEN m.span ELSE m.spans[last.i]
       IN /\ last.res.ok
          /\ sp = NoSpan => last.res.val = None
          /\ sp # NoSpan => last.res.val = Some(Encode(Slice(m.string, sp)))
  /\ last.op = "groups" =>
       /\ last.res.ok
       /\ Len(last.res.val) = NGroups
       /\ \A j \in 1..NGroups : last.res.val[j] = group(held[last.k], j).val

C7_Witness ==
  /\ last.op = "group" /\ last.i = 1 /\ NGroups = 1 /\ last.res = Ok(None)

C7_WitnessPast == last.op = "start" /\ last.i > NGroups /\ ~last.res.ok

RECURSIVE Rejoin(_, _)
\* piece 0, match 0, piece 1, ..., match k-1, piece k
Rejoin(pieces, ms) ==
  IF ms = <<>> THEN Head(pieces)
  ELSE Head(pieces) \o G0(Head(ms))[1] \o Rejoin(Tail(pieces), Tail(ms))

\* C8: for a pattern without capturing groups split returns one piece more
\* than there are matches, and the pieces interleaved with the matched
\* texts give back the text.
C8_SplitRoundTrip ==
  last.op = "split" /\ NGroups = 0 =>
    /\ last.res.ok
    /\ Len(last.res.val) = Len(Found) + 1
    /\ Rejoin(last.res.val, Found) = text

C8_Witness ==
  /\ last.op = "split" /\ NGroups = 0 /\ Len(Found) = 2
  /\ \E j \in 1..Len(text) : text[j][2] = 2

\* C9 as stated: the matches of find_iter start at strictly increasing
\* offsets, each at or after the end of the previous one, and the match
\* after a zero-length match starts at least one code point further on.
C9_StrictlyAdvancing ==
  last.op = "find_iter" =>
    /\ last.res.ok
    /\ \A j \in 1..(Len(last.res.val) - 1) :
         LET m == last.res.val[j]
             nx == last.res.val[j + 1]
         IN /\ S0(nx) > S0(m)
            /\ S0(nx) >= E0(m)
            /\ S0(m) = E0(m) => S0(nx) >= E0(m) + 1

\* C9 amended: find_iter returns a finite list (at most two matches per
\* offset of the text); each match starts at or after the end of the
\* previous one and its (start, end) is greater than the previous one's;
\* the match after a zero-length match is not a zero-length match at the
\* same offset.
C9_Progress ==
  last.op = "find_iter" =>
    /\ last.res.ok
    /\ Len(last.res.val) <= 2 * (Len(Decode(text)) + 1)
    /\ \A j \in 1..Len(last.res.val) :
         LET m == last.res.val[j]
         IN 0 <= S0(m) /\ S0(m) <= E0(m) /\ E0(m) <= Len(Decode(text))
    /\ \A j \in 1..(Len(last.res.val) - 1) :
         LET m == last.res.val[j]
             nx == last.res.val[j + 1]
         IN /\ S0(nx) >= E0(m)
            /\ S0(nx) > S0(m) \/ (S0(nx) = S0(m) /\ E0(nx) > E0(m))
            /\ ~(S0(m) = E0(m) /\ S0(nx) = E0(nx) /\ S0(nx) = S0(m))

C9_Witness ==
  /\ last.op = "find_iter" /\ Len(last.res.val) > 2
  /\ S0(last.res.val[1]) = E0(last.res.val[1])
  /\ S0(last.res.val[2]) = S0(last.res.val[1])

\* the names the pattern source declares, and the number of the group a name
\* is written on: the count of capturing groups opened up to it
Declared == {pattern.ast[j].name : j \in 1..Len(pattern.ast)} \ {""}
NumberOf(nm) ==
  LET j == CHOOSE x \in 1..Len(pattern.ast) : pattern.ast[x].name = nm
  IN Cardinality({x \in 1..j : pattern.ast[x].cap # "none"})

\* C10: groupdict() has exactly one entry per name declared in the pattern,
\* its value is group(i) for the left-to-right number i of the named group
\* (None when the group did not participate), and every match of the
\* pattern resolves a name to the same number.
C10_NamesAreNumbers ==
  /\ last.op = "groupdict" =>
       /\ last.res.ok
       /\ DOMAIN last.res.val = Declared
       /\ \A nm \in Declared : last.res.val[nm] = group(held[last.k], NumberOf(nm)).val
  /\ \A k \in 1..Len(held) : \A nm \in Declared :
       /\ nm \in DOMAIN held[k].inner.v.groupindex
       /\ held[k].inner.v.groupindex[nm] = NumberOf(nm)

C10_Witness ==
  /\ last.op = "groupdict" /\ Declared = {"x"} /\ last.res.val["x"] = None

C10_WitnessSecond ==
  /\ last.op = "groupdict" /\ Declared = {"n"} /\ NumberOf("n") = 2
  /\ last.res.val["n"] # None

====
